---- MODULE Spec2Model ----
(***************************************************************************)
(* deaconn: a net.Conn wrapper that adds deadlines to a connection whose   *)
(* transport has none (conn.go).  The model follows the goroutines of      *)
(* conn.go: the reader pump (continouslyReadIntoBuffer), one caller of     *)
(* Read, one caller of Write with the goroutine each Write spawns, one     *)
(* caller of Close and one caller of the deadline setters.                 *)
(*                                                                         *)
(* Go's select is modelled as the runtime executes it: on entry it takes   *)
(* one of the cases that are ready, chosen arbitrarily, or the default     *)
(* when none is; with no default and nothing ready the goroutine parks,    *)
(* and the first event on one of its channels (a close, a send) decides    *)
(* the case it resumes with.                                               *)
(*                                                                         *)
(* The bytes of the underlying stream are numbered in the order produced   *)
(* (the i-th byte is the number i), so that a duplicated, skipped or       *)
(* reordered byte is visible in what Read delivers.                        *)
(***************************************************************************)
EXTENDS Integers, Sequences, FiniteSets

\* Bounds of the model.
MaxProduced == 3   \* bytes the underlying stream produces in all
MaxChunk == 3      \* bytes one underlying read returns (readBufferSize scaled down)
MaxBuf == 2        \* length of the caller's Read destination
MaxSrc == 1        \* length of the caller's Write source
MaxWrites == 2     \* Write calls that reach the underlying stream
MaxCloses == 2     \* Close calls of the caller

VARIABLES
    ctxDone,          \* c.ctx is cancelled (c.ctx.Done() is closed)
    cancelCalls,      \* calls of c.ctxCancel so far
    innerCloseCalls,  \* calls of c.inner.Close so far
    innerReads,       \* calls of c.inner.Read in flight
    nProduced,        \* bytes c.inner.Read has returned so far
    pump,             \* the goroutine continouslyReadIntoBuffer
    rxDataClosed,     \* close(c.rxData) has run
    rxDataPending,    \* c.rxDataPending
    rxDeadline,       \* c.rxDeadline
    txDeadline,       \* c.txDeadline
    rd,               \* the caller of Read
    rdRet,            \* what the last Read returned
    rdTimedOut,       \* a Read has returned os.ErrDeadlineExceeded
    delivered,        \* the bytes all Reads returned, in order
    wr,               \* the caller of Write
    wrRet,            \* what the last Write returned
    wrTimedOut,       \* a Write has returned os.ErrDeadlineExceeded
    tasks,            \* the goroutines spawned by Write, by call number
    cl,               \* the caller of Close
    sd,               \* the caller of the deadline setters
    sdRet             \* the last deadline setter that returned, and its error

vars == <<ctxDone, cancelCalls, innerCloseCalls, innerReads, nProduced, pump,
          rxDataClosed, rxDataPending, rxDeadline, txDeadline, rd, rdRet,
          rdTimedOut, delivered, wr, wrRet, wrTimedOut, tasks, cl, sd, sdRet>>

pumpVars == <<innerReads, nProduced, pump, rxDataClosed>>
readVars == <<rxDataPending, rd, rdRet, rdTimedOut, delivered>>
callVars == <<wr, wrRet, wrTimedOut>>
writeVars == <<wr, wrRet, wrTimedOut, tasks>>
setVars == <<sd, sdRet>>

Min(a, b) == IF a < b THEN a ELSE b

\* s[from+1 .. ], Go's s[from:]
SliceFrom(s, from) == SubSeq(s, from + 1, Len(s))

\* s[ .. to], Go's s[:to]
SliceTo(s, to) == SubSeq(s, 1, to)

IsPrefix(s, t) == Len(s) <= Len(t) /\ s = SubSeq(t, 1, Len(s))

\* The first n bytes of the underlying stream.
Stream(n) == [i \in 1..n |-> i]

\* A time.Time as the setters see it: the zero value, an instant that has
\* passed, an instant still to come.
Times == {"zero", "past", "future"}

\* A []byte argument that holds at least one byte.
NonEmpty(max) == {[nil |-> FALSE, len |-> k] : k \in 1..max}

\* A []byte argument: nil, or a slice of some length.
Buffers(max) == {[nil |-> TRUE, len |-> 0]} \cup {[nil |-> FALSE, len |-> k] : k \in 0..max}

----------------------------------------------------------------------------
(* The deadline primitive (package deadline).  Done() returns the current  *)
(* signal; every Set replaces it by a fresh one, and the one replaced      *)
(* never fires afterwards.  A goroutine parked on a signal holds the       *)
(* "current" one until a Set replaces it, and a "stale" one from then on;  *)
(* fired tells whether the current signal is closed.                       *)

DeadlineNew == [t |-> "zero", fired |-> FALSE]

\* Done(): the current signal.
DeadlineDone(d) == "current"

\* Whether a signal is closed.  A stale signal that a goroutine is parked
\* on was open when it was replaced, and stays open.
SignalFired(d, sig) == sig = "current" /\ d.fired

\* Set(t): a fresh signal, closed at once when t has passed, closed by the
\* timer when t is reached, never closed for the zero value.
DeadlineSet(d, t) == [t |-> t, fired |-> t = "past"]

\* What a signal held across a Set becomes.
SignalReplaced(sig) == IF sig = "current" THEN "stale" ELSE sig

\* The timer of a deadline set in the future is running.
DeadlineArmed(d) == d.t = "future" /\ ~d.fired

\* The timer fires: the current signal is closed.
DeadlineFire(d) == [d EXCEPT !.fired = TRUE]

----------------------------------------------------------------------------
(* Results *)

\* (n, err) as returned by a call that was at the place at: "idle" when it
\* returned before blocking anywhere, "select" when it returned from the
\* select it entered, "parked" when it was parked in that select.
Result(n, err, at) == [n |-> n, err |-> err, at |-> at]

NoResult == Result(0, "none", "none")

\* The goroutine a Write spawns: not started, in c.inner.Write ("writing"),
\* blocked sending the result on txResultChan ("sending"), or ended.  The
\* result (n, err) is kept while the Write that can receive it is running;
\* nobody receives the result of a goroutine whose Write has returned.
Task(st) == [st |-> st, n |-> 0, err |-> "nil"]

\* The caller of Read between two calls.
ReaderIdle == [pc |-> "idle", len |-> 0, sig |-> "none"]

\* The caller of Write between two calls, after calls calls that wrote.
WriterIdle(calls) ==
    [pc |-> "idle", len |-> 0, sig |-> "none", calls |-> calls, closedAtCall |-> FALSE]

----------------------------------------------------------------------------
(* Read: the copy into the caller's buffer *)

\* n := copy(b, c.rxDataPending); c.rxDataPending = c.rxDataPending[n:]
AdjustPending(pending, n) == SliceFrom(pending, n)

\* A slip in StashRemainder: the remainder kept starts one byte late.
StashRemainderOffByOne(pending, data, n) ==
    IF n < Len(data) THEN pending \o SliceFrom(data, n + 1) ELSE pending

\* c.rxDataPending = append(c.rxDataPending, data[n:]...) when n < len(data)
StashRemainder(pending, data, n) ==
    IF n < Len(data) THEN pending \o SliceFrom(data, n) ELSE pending

\* The data case of Read's second select: data is copied into a destination
\* of length len and the rest is kept for the next Read.
ReadDeliver(data, len) ==
    LET n == Min(len, Len(data)) IN
    /\ rxDataPending' = StashRemainder(rxDataPending, data, n)
    /\ delivered' = delivered \o SliceTo(data, n)
    /\ rdRet' = Result(n, "nil", rd.pc)
    /\ rd' = ReaderIdle
    /\ UNCHANGED rdTimedOut

\* A slip in ReadFail: the failing Read drops the pending bytes.
ReadFailDropsPending(err) ==
    /\ rdRet' = Result(0, err, rd.pc)
    /\ rdTimedOut' = (rdTimedOut \/ err = "DEADLINE")
    /\ rd' = ReaderIdle
    /\ rxDataPending' = <<>>
    /\ UNCHANGED delivered

\* Read returns n = 0 and an error.
ReadFail(err) ==
    /\ rdRet' = Result(0, err, rd.pc)
    /\ rdTimedOut' = (rdTimedOut \/ err = "DEADLINE")
    /\ rd' = ReaderIdle
    /\ UNCHANGED <<rxDataPending, delivered>>

----------------------------------------------------------------------------
Init ==
    /\ ctxDone = FALSE
    /\ cancelCalls = 0
    /\ innerCloseCalls = 0
    /\ innerReads = 0
    /\ nProduced = 0
    /\ pump = [pc |-> "loop", chunk |-> <<>>, err |-> FALSE]
    /\ rxDataClosed = FALSE
    /\ rxDataPending = <<>>
    /\ rxDeadline = DeadlineNew
    /\ txDeadline = DeadlineNew
    /\ rd = ReaderIdle
    /\ rdRet = NoResult
    /\ rdTimedOut = FALSE
    /\ delivered = <<>>
    /\ wr = WriterIdle(0)
    /\ wrRet = NoResult
    /\ wrTimedOut = FALSE
    /\ tasks = [k \in 1..MaxWrites |-> Task("unborn")]
    /\ cl = [pc |-> "idle", calls |-> 0]
    /\ sd = [pc |-> "idle", t |-> "zero"]
    /\ sdRet = [op |-> "none", err |-> "none"]

----------------------------------------------------------------------------
(* Parked goroutines.  A Read or a Write parked in its select resumes with *)
(* the case of the first event that reaches it.                            *)

\* A parked Read resumes with an error.
WakeReader(err) ==
    IF rd.pc = "parked" THEN ReadFail(err) ELSE UNCHANGED readVars

\* Write returns n = 0 and an error; the goroutine it spawned runs on.
WriteFail(err) ==
    /\ wrRet' = Result(0, err, wr.pc)
    /\ wrTimedOut' = (wrTimedOut \/ err = "DEADLINE")
    /\ wr' = WriterIdle(wr.calls)

\* A slip in Write's select: no case resumes a parked Write with an error.
WakeWriterNever(err) == UNCHANGED callVars

\* A parked Write resumes with an error.
WakeWriter(err) ==
    IF wr.pc = "parked" THEN WriteFail(err) ELSE UNCHANGED callVars

\* c.ctxCancel(): closes c.ctx.Done() the first time it is called.
CtxCancel ==
    /\ ctxDone' = TRUE
    /\ cancelCalls' = cancelCalls + 1
    /\ WakeReader("EOF")
    /\ WakeWriter("EOF")

----------------------------------------------------------------------------
(* The reader pump, continouslyReadIntoBuffer *)

\* After the send (or with n = 0): return when err != nil, else loop.
PumpAfterRead(err) ==
    [pc |-> IF err THEN "close" ELSE "loop", chunk |-> <<>>, err |-> FALSE]

\* A slip in PumpLoop: the loop calls c.inner.Read without the select on
\* c.ctx.
PumpLoopUnchecked ==
    /\ pump.pc = "loop"
    /\ pump' = [pump EXCEPT !.pc = "reading"]
    /\ innerReads' = innerReads + 1
    /\ UNCHANGED <<ctxDone, cancelCalls, innerCloseCalls, nProduced, rxDataClosed,
                   rxDeadline, txDeadline, readVars, writeVars, cl, setVars>>

\* The select at the top of the loop: return when c.ctx is done, otherwise
\* call c.inner.Read(buf).
PumpLoop ==
    /\ pump.pc = "loop"
    /\ IF ctxDone
       THEN /\ pump' = [pump EXCEPT !.pc = "close"]
            /\ UNCHANGED innerReads
       ELSE /\ pump' = [pump EXCEPT !.pc = "reading"]
            /\ innerReads' = innerReads + 1
    /\ UNCHANGED <<ctxDone, cancelCalls, innerCloseCalls, nProduced, rxDataClosed,
                   rxDeadline, txDeadline, readVars, writeVars, cl, setVars>>

\* A slip in InnerReadReturns: the copy is sent also when n is 0.
InnerReadReturnsSendsEmpty(n, err) ==
    /\ pump.pc = "reading"
    /\ nProduced + n <= MaxProduced
    /\ LET copied == [i \in 1..n |-> nProduced + i] IN
       /\ nProduced' = nProduced + n
       /\ innerReads' = innerReads - 1
       /\ IF rd.pc = "parked"
          THEN /\ ReadDeliver(copied, rd.len)
               /\ pump' = PumpAfterRead(err)
          ELSE /\ pump' = [pc |-> "sending", chunk |-> copied, err |-> err]
               /\ UNCHANGED readVars
    /\ UNCHANGED <<ctxDone, cancelCalls, innerCloseCalls, rxDataClosed,
                   rxDeadline, txDeadline, writeVars, cl, setVars>>

\* c.inner.Read returns (n, err).  With n > 0 the pump sends the copy on
\* c.rxData: a parked Read takes it at once, otherwise the pump blocks in
\* the send.
InnerReadReturns(n, err) ==
    /\ pump.pc = "reading"
    /\ nProduced + n <= MaxProduced
    /\ LET copied == [i \in 1..n |-> nProduced + i] IN
       /\ nProduced' = nProduced + n
       /\ innerReads' = innerReads - 1
       /\ IF n > 0 /\ rd.pc = "parked"
          THEN /\ ReadDeliver(copied, rd.len)
               /\ pump' = PumpAfterRead(err)
          ELSE /\ pump' = IF n > 0
                          THEN [pc |-> "sending", chunk |-> copied, err |-> err]
                          ELSE PumpAfterRead(err)
               /\ UNCHANGED readVars
    /\ UNCHANGED <<ctxDone, cancelCalls, innerCloseCalls, rxDataClosed,
                   rxDeadline, txDeadline, writeVars, cl, setVars>>

\* defer c.Close(), first half: c.inner.Close().
PumpClose ==
    /\ pump.pc = "close"
    /\ innerCloseCalls' = innerCloseCalls + 1
    /\ pump' = [pump EXCEPT !.pc = "cancel"]
    /\ UNCHANGED <<ctxDone, cancelCalls, innerReads, nProduced, rxDataClosed,
                   rxDeadline, txDeadline, readVars, writeVars, cl, setVars>>

\* defer c.Close(), second half: the deferred c.ctxCancel().
PumpCancel ==
    /\ pump.pc = "cancel"
    /\ CtxCancel
    /\ pump' = [pump EXCEPT !.pc = "closeRxData"]
    /\ UNCHANGED <<innerCloseCalls, innerReads, nProduced, rxDataClosed,
                   rxDeadline, txDeadline, tasks, cl, setVars>>

\* defer close(c.rxData)
PumpCloseRxData ==
    /\ pump.pc = "closeRxData"
    /\ rxDataClosed' = TRUE
    /\ pump' = [pump EXCEPT !.pc = "done"]
    /\ WakeReader("EOF")
    /\ UNCHANGED <<ctxDone, cancelCalls, innerCloseCalls, innerReads, nProduced,
                   rxDeadline, txDeadline, writeVars, cl, setVars>>

----------------------------------------------------------------------------
(* Read *)

\* A slip in ReadReady: Done() is not fetched again, so a signal that fired
\* once is seen as fired for good.
ReadReadyCachedSignal(second) ==
    {"EOF" : x \in {1} \cap (IF ctxDone THEN {1} ELSE {})}
    \cup {"DEADLINE" : x \in {1} \cap (IF rdTimedOut \/ SignalFired(rxDeadline, DeadlineDone(rxDeadline)) THEN {1} ELSE {})}
    \cup {"data" : x \in {1} \cap (IF second /\ pump.pc = "sending" THEN {1} ELSE {})}
    \cup {"closed" : x \in {1} \cap (IF second /\ rxDataClosed THEN {1} ELSE {})}

\* A slip in ReadReady: the first select does not watch the deadline.
ReadReadyDeadlineSecondOnly(second) ==
    {"EOF" : x \in {1} \cap (IF ctxDone THEN {1} ELSE {})}
    \cup {"DEADLINE" : x \in {1} \cap (IF second /\ SignalFired(rxDeadline, DeadlineDone(rxDeadline)) THEN {1} ELSE {})}
    \cup {"data" : x \in {1} \cap (IF second /\ pump.pc = "sending" THEN {1} ELSE {})}
    \cup {"closed" : x \in {1} \cap (IF second /\ rxDataClosed THEN {1} ELSE {})}

\* The cases of Read's selects that are ready: c.ctx.Done() and
\* c.rxDeadline.Done() in both, c.rxData in the second only.
ReadReady(second) ==
    {"EOF" : x \in {1} \cap (IF ctxDone THEN {1} ELSE {})}
    \cup {"DEADLINE" : x \in {1} \cap (IF SignalFired(rxDeadline, DeadlineDone(rxDeadline)) THEN {1} ELSE {})}
    \cup {"data" : x \in {1} \cap (IF second /\ pump.pc = "sending" THEN {1} ELSE {})}
    \cup {"closed" : x \in {1} \cap (IF second /\ rxDataClosed THEN {1} ELSE {})}

\* Read(b) up to the end of its first select: nil returns at once; a ready
\* c.ctx.Done() or c.rxDeadline.Done() returns its error; the default case
\* serves the pending bytes, and with none Read goes on to the second select.
Read(b) ==
    /\ rd.pc = "idle"
    /\ IF b.nil
       THEN /\ rdRet' = Result(0, "nil", rd.pc)
            /\ UNCHANGED <<rxDataPending, rd, rdTimedOut, delivered>>
       ELSE IF ReadReady(FALSE) # {}
       THEN \E c \in ReadReady(FALSE) : ReadFail(c)
       ELSE IF Len(rxDataPending) > 0
       THEN LET n == Min(b.len, Len(rxDataPending)) IN
            /\ delivered' = delivered \o SliceTo(rxDataPending, n)
            /\ rxDataPending' = AdjustPending(rxDataPending, n)
            /\ rdRet' = Result(n, "nil", rd.pc)
            /\ UNCHANGED <<rd, rdTimedOut>>
       ELSE /\ rd' = [pc |-> "select", len |-> b.len, sig |-> "none"]
            /\ UNCHANGED <<rxDataPending, rdRet, rdTimedOut, delivered>>
    /\ UNCHANGED <<ctxDone, cancelCalls, innerCloseCalls, pumpVars,
                   rxDeadline, txDeadline, writeVars, cl, setVars>>

\* Read enters its second select: it takes a ready case, or parks holding
\* the signal c.rxDeadline.Done() returned.
ReadSelect ==
    /\ rd.pc = "select"
    /\ IF ReadReady(TRUE) = {}
       THEN /\ rd' = [rd EXCEPT !.pc = "parked", !.sig = DeadlineDone(rxDeadline)]
            /\ UNCHANGED <<rxDataPending, rdRet, rdTimedOut, delivered, pump>>
       ELSE \E c \in ReadReady(TRUE) :
            IF c = "data"
            THEN /\ ReadDeliver(pump.chunk, rd.len)
                 /\ pump' = PumpAfterRead(pump.err)
            ELSE /\ ReadFail(IF c = "closed" THEN "EOF" ELSE c)
                 /\ UNCHANGED pump
    /\ UNCHANGED <<ctxDone, cancelCalls, innerCloseCalls, innerReads, nProduced,
                   rxDataClosed, rxDeadline, txDeadline, writeVars, cl, setVars>>

\* The instant of the read deadline is reached: the timer closes the
\* current signal, and a Read parked on that signal resumes.
RxDeadlineExpires ==
    /\ DeadlineArmed(rxDeadline)
    /\ rxDeadline' = DeadlineFire(rxDeadline)
    /\ IF rd.pc = "parked" /\ rd.sig = DeadlineDone(rxDeadline)
       THEN ReadFail("DEADLINE")
       ELSE UNCHANGED readVars
    /\ UNCHANGED <<ctxDone, cancelCalls, innerCloseCalls, pumpVars, txDeadline,
                   writeVars, cl, setVars>>

----------------------------------------------------------------------------
(* Write *)

\* The k-th Write is running.
InCall(k) == wr.calls = k /\ wr.pc # "idle"

\* The cases of Write's select that are ready.
WriteReady ==
    {"EOF" : x \in {1} \cap (IF ctxDone THEN {1} ELSE {})}
    \cup {"DEADLINE" : x \in {1} \cap (IF SignalFired(txDeadline, DeadlineDone(txDeadline)) THEN {1} ELSE {})}
    \cup {"result" : x \in {1} \cap (IF tasks[wr.calls].st = "sending" THEN {1} ELSE {})}

\* Write(b) up to the go statement: nil returns at once, otherwise b is
\* copied and the goroutine that calls c.inner.Write(copied) is started.
Write(b) ==
    /\ wr.pc = "idle"
    /\ IF b.nil
       THEN /\ wrRet' = Result(0, "nil", wr.pc)
            /\ UNCHANGED <<wr, wrTimedOut, tasks>>
       ELSE /\ wr.calls < MaxWrites
            /\ wr' = [pc |-> "select", len |-> b.len, sig |-> "none",
                      calls |-> wr.calls + 1, closedAtCall |-> ctxDone]
            /\ tasks' = [tasks EXCEPT ![wr.calls + 1] = Task("writing")]
            /\ UNCHANGED <<wrRet, wrTimedOut>>
    /\ UNCHANGED <<ctxDone, cancelCalls, innerCloseCalls, pumpVars, rxDeadline,
                   txDeadline, readVars, cl, setVars>>

\* c.inner.Write of the k-th Write returns (n, err) and its goroutine sends
\* the result on txResultChan: a Write parked in that call's select takes
\* it, and the goroutine closes the channel and ends; otherwise the
\* goroutine blocks in the send.
InnerWriteReturns(k, n, err) ==
    /\ tasks[k].st = "writing"
    /\ InCall(k) => n <= wr.len /\ (err = "nil" => n = wr.len)
    /\ IF wr.pc = "parked" /\ wr.calls = k
       THEN /\ wrRet' = Result(n, err, wr.pc)
            /\ wr' = WriterIdle(wr.calls)
            /\ UNCHANGED wrTimedOut
            /\ tasks' = [tasks EXCEPT ![k] = Task("done")]
       ELSE /\ tasks' = [tasks EXCEPT ![k] =
                            IF InCall(k) THEN [st |-> "sending", n |-> n, err |-> err]
                                         ELSE Task("sending")]
            /\ UNCHANGED callVars
    /\ UNCHANGED <<ctxDone, cancelCalls, innerCloseCalls, pumpVars, rxDeadline,
                   txDeadline, readVars, cl, setVars>>

\* Write enters its select: it takes a ready case, or parks holding the
\* signal c.txDeadline.Done() returned.
WriteSelect ==
    /\ wr.pc = "select"
    /\ IF WriteReady = {}
       THEN /\ wr' = [wr EXCEPT !.pc = "parked", !.sig = DeadlineDone(txDeadline)]
            /\ UNCHANGED <<wrRet, wrTimedOut, tasks>>
       ELSE \E c \in WriteReady :
            IF c = "result"
            THEN /\ wrRet' = Result(tasks[wr.calls].n, tasks[wr.calls].err, wr.pc)
                 /\ wr' = WriterIdle(wr.calls)
                 /\ UNCHANGED wrTimedOut
                 /\ tasks' = [tasks EXCEPT ![wr.calls] = Task("done")]
            ELSE /\ WriteFail(c)
                 /\ tasks' = [tasks EXCEPT ![wr.calls] = Task(@.st)]
    /\ UNCHANGED <<ctxDone, cancelCalls, innerCloseCalls, pumpVars, rxDeadline,
                   txDeadline, readVars, cl, setVars>>

\* The instant of the write deadline is reached.
TxDeadlineExpires ==
    /\ DeadlineArmed(txDeadline)
    /\ txDeadline' = DeadlineFire(txDeadline)
    /\ IF wr.pc = "parked" /\ wr.sig = DeadlineDone(txDeadline)
       THEN WriteFail("DEADLINE")
       ELSE UNCHANGED callVars
    /\ UNCHANGED <<ctxDone, cancelCalls, innerCloseCalls, pumpVars, rxDeadline,
                   readVars, tasks, cl, setVars>>

----------------------------------------------------------------------------
(* Close *)

\* Close(), first half: c.inner.Close().
Close ==
    /\ cl.pc = "idle"
    /\ cl.calls < MaxCloses
    /\ innerCloseCalls' = innerCloseCalls + 1
    /\ cl' = [pc |-> "cancel", calls |-> cl.calls + 1]
    /\ UNCHANGED <<ctxDone, cancelCalls, pumpVars, rxDeadline, txDeadline,
                   readVars, writeVars, setVars>>

\* A slip in CloseCancel: Close also closes c.rxData.
CloseCancelClosesRxData ==
    /\ cl.pc = "cancel"
    /\ CtxCancel
    /\ cl' = [cl EXCEPT !.pc = "idle"]
    /\ rxDataClosed' = TRUE
    /\ UNCHANGED <<innerCloseCalls, innerReads, nProduced, pump, rxDeadline,
                   txDeadline, tasks, setVars>>

\* Close(), second half: the deferred c.ctxCancel(), and Close returns.
CloseCancel ==
    /\ cl.pc = "cancel"
    /\ CtxCancel
    /\ cl' = [cl EXCEPT !.pc = "idle"]
    /\ UNCHANGED <<innerCloseCalls, pumpVars, rxDeadline, txDeadline, tasks, setVars>>

----------------------------------------------------------------------------
(* The deadline setters *)

\* The select of a setter: net.ErrClosed when c.ctx is done, else nil.
SetterResult == IF ctxDone THEN "ErrClosed" ELSE "nil"

\* A slip in SetterEffect: the setter does not look at c.ctx.
SetterEffectIgnoreClosed(d, t) == DeadlineSet(d, t)

\* A slip in SetterEffect: the zero value is taken for "nothing to set".
SetterEffectSkipZero(d, t) == IF ctxDone \/ t = "zero" THEN d ELSE DeadlineSet(d, t)

\* The deadline a setter leaves: unchanged when c.ctx is done, else Set(t).
SetterEffect(d, t) == IF ctxDone THEN d ELSE DeadlineSet(d, t)

\* The signal a parked goroutine holds after a setter has run.
SetterHeld(sig) == IF ctxDone THEN sig ELSE SignalReplaced(sig)

\* c.rxDeadline.Set(t) unless c.ctx is done.
SetRx(t) ==
    /\ rxDeadline' = SetterEffect(rxDeadline, t)
    /\ rd' = [rd EXCEPT !.sig = SetterHeld(@)]

\* c.txDeadline.Set(t) unless c.ctx is done.
SetTx(t) ==
    /\ txDeadline' = SetterEffect(txDeadline, t)
    /\ wr' = [wr EXCEPT !.sig = SetterHeld(@)]

SetReadDeadline(t) ==
    /\ sd.pc = "idle"
    /\ SetRx(t)
    /\ sdRet' = [op |-> "SetReadDeadline", err |-> SetterResult]
    /\ UNCHANGED <<ctxDone, cancelCalls, innerCloseCalls, pumpVars, txDeadline,
                   rxDataPending, rdRet, rdTimedOut, delivered, writeVars, cl, sd>>

SetWriteDeadline(t) ==
    /\ sd.pc = "idle"
    /\ SetTx(t)
    /\ sdRet' = [op |-> "SetWriteDeadline", err |-> SetterResult]
    /\ UNCHANGED <<ctxDone, cancelCalls, innerCloseCalls, pumpVars, rxDeadline,
                   readVars, wrRet, wrTimedOut, tasks, cl, sd>>

\* SetDeadline(t), first half: c.SetReadDeadline(t), returning its error.
SetDeadline(t) ==
    /\ sd.pc = "idle"
    /\ SetRx(t)
    /\ IF SetterResult # "nil"
       THEN /\ sdRet' = [op |-> "SetDeadline", err |-> SetterResult]
            /\ UNCHANGED sd
       ELSE /\ sd' = [pc |-> "write", t |-> t]
            /\ UNCHANGED sdRet
    /\ UNCHANGED <<ctxDone, cancelCalls, innerCloseCalls, pumpVars, txDeadline,
                   rxDataPending, rdRet, rdTimedOut, delivered, writeVars, cl>>

\* SetDeadline(t), second half: return c.SetWriteDeadline(t).
SetDeadlineWrite ==
    /\ sd.pc = "write"
    /\ SetTx(sd.t)
    /\ sdRet' = [op |-> "SetDeadline", err |-> SetterResult]
    /\ sd' = [pc |-> "idle", t |-> "zero"]
    /\ UNCHANGED <<ctxDone, cancelCalls, innerCloseCalls, pumpVars, rxDeadline,
                   readVars, wrRet, wrTimedOut, tasks, cl>>

----------------------------------------------------------------------------
(* The read side: the pump, Read, the read deadline, Close. *)
NextRead ==
    \/ PumpLoop
    \/ \E n \in 0..MaxChunk, err \in BOOLEAN : InnerReadReturns(n, err)
    \/ PumpClose
    \/ PumpCancel
    \/ PumpCloseRxData
    \/ \E b \in Buffers(MaxBuf) : Read(b)
    \/ ReadSelect
    \/ RxDeadlineExpires
    \/ Close
    \/ CloseCancel
    \/ \E t \in Times : SetReadDeadline(t)

(* The write side, over an underlying stream whose reads return no bytes:  *)
(* Write and its goroutines, the write deadline, Close, the pump.          *)
NextWrite ==
    \/ PumpLoop
    \/ \E err \in BOOLEAN : InnerReadReturns(0, err)
    \/ PumpClose
    \/ PumpCancel
    \/ PumpCloseRxData
    \/ \E b \in Buffers(MaxSrc) : Write(b)
    \/ \E k \in 1..MaxWrites, n \in 0..MaxSrc, err \in {"nil", "inner"} : InnerWriteReturns(k, n, err)
    \/ WriteSelect
    \/ TxDeadlineExpires
    \/ Close
    \/ CloseCancel
    \/ \E t \in Times : SetWriteDeadline(t)

(* A reader that drains the stream: Reads with non-empty destinations, no *)
(* deadline, no Close by the caller.                                       *)
NextDrain ==
    \/ PumpLoop
    \/ \E n \in 0..MaxChunk, err \in BOOLEAN : InnerReadReturns(n, err)
    \/ PumpClose
    \/ PumpCancel
    \/ PumpCloseRxData
    \/ \E b \in NonEmpty(MaxBuf) : Read(b)
    \/ ReadSelect

(* Close against a Read and a Write, no deadline set, over an underlying   *)
(* stream whose reads return no bytes.                                     *)
NextClose ==
    \/ PumpLoop
    \/ \E err \in BOOLEAN : InnerReadReturns(0, err)
    \/ PumpClose
    \/ PumpCancel
    \/ PumpCloseRxData
    \/ \E b \in Buffers(MaxBuf) : Read(b)
    \/ ReadSelect
    \/ \E b \in Buffers(MaxSrc) : Write(b)
    \/ \E k \in 1..MaxWrites, n \in 0..MaxSrc, err \in {"nil", "inner"} : InnerWriteReturns(k, n, err)
    \/ WriteSelect
    \/ Close
    \/ CloseCancel

(* The deadline setters against Close and the timers. *)
NextSet ==
    \/ PumpLoop
    \/ \E err \in BOOLEAN : InnerReadReturns(0, err)
    \/ PumpClose
    \/ PumpCancel
    \/ PumpCloseRxData
    \/ RxDeadlineExpires
    \/ TxDeadlineExpires
    \/ Close
    \/ CloseCancel
    \/ \E t \in Times : SetReadDeadline(t)
    \/ \E t \in Times : SetWriteDeadline(t)
    \/ \E t \in Times : SetDeadline(t)
    \/ SetDeadlineWrite

(* An open connection that its caller uses in one direction, reading or   *)
(* writing, with deadlines set to instants, past or future: no Close, no   *)
(* error of the underlying read.                                           *)
ReadUntouched ==
    rd = ReaderIdle /\ rdRet = NoResult /\ rxDeadline = DeadlineNew /\ nProduced = 0

WriteUntouched ==
    wr = WriterIdle(0) /\ wrRet = NoResult /\ txDeadline = DeadlineNew

NextRevive ==
    \/ PumpLoop
    \/ WriteUntouched /\ \E n \in 0..MaxChunk : InnerReadReturns(n, FALSE)
    \/ WriteUntouched /\ \E b \in NonEmpty(MaxBuf) : Read(b)
    \/ ReadSelect
    \/ RxDeadlineExpires
    \/ WriteUntouched /\ \E t \in Times \ {"zero"} : SetReadDeadline(t)
    \/ ReadUntouched /\ \E b \in NonEmpty(MaxSrc) : Write(b)
    \/ \E k \in 1..MaxWrites, n \in 0..MaxSrc, err \in {"nil", "inner"} : InnerWriteReturns(k, n, err)
    \/ WriteSelect
    \/ TxDeadlineExpires
    \/ ReadUntouched /\ \E t \in Times \ {"zero"} : SetWriteDeadline(t)

(* Shutdown: Close by the caller, repeated, against the pump's own close   *)
(* and Reads, no deadline set.                                             *)
NextShut ==
    \/ PumpLoop
    \/ \E n \in 0..MaxChunk, err \in BOOLEAN : InnerReadReturns(n, err)
    \/ PumpClose
    \/ PumpCancel
    \/ PumpCloseRxData
    \/ \E b \in NonEmpty(MaxBuf) : Read(b)
    \/ ReadSelect
    \/ Close
    \/ CloseCancel

Next ==
    \/ NextRead
    \/ NextWrite
    \/ \E t \in Times : SetDeadline(t)
    \/ SetDeadlineWrite

Spec == Init /\ [][Next]_vars

SpecRead == Init /\ [][NextRead]_vars

SpecWrite == Init /\ [][NextWrite]_vars

SpecDrain == Init /\ [][NextDrain]_vars

SpecClose == Init /\ [][NextClose]_vars

SpecSet == Init /\ [][NextSet]_vars

SpecRevive == Init /\ [][NextRevive]_vars

SpecShut == Init /\ [][NextShut]_vars

----------------------------------------------------------------------------
(* Properties *)

\* A Read call returns in this step.
ReadReturns ==
    /\ rd'.pc = "idle"
    /\ rd.pc # "idle" \/ \E b \in Buffers(MaxBuf) : Read(b)

\* A Read call with a non-empty destination starts in this step.
ReadStarts == \E b \in Buffers(MaxBuf) : ~b.nil /\ b.len > 0 /\ Read(b)

\* C1: the bytes the Reads have returned so far, concatenated, are a prefix
\* of the bytes the underlying reads have produced so far: nothing is
\* duplicated, skipped or reordered.
C1_DeliveredIsPrefix == IsPrefix(delivered, Stream(nProduced))

\* C1 witness: a chunk of three bytes half-served by smaller Reads, the last
\* Read having hit the deadline.
C1_Witness ==
    /\ delivered = Stream(2)
    /\ Len(rxDataPending) = 1
    /\ rdRet.err = "DEADLINE"

\* C2 (as claimed): with Reads of non-empty destinations only, no deadline
\* set and no Close by the caller, when Read returns end-of-stream every
\* byte the underlying stream produced has been returned by a Read.
C2_NoByteLostBeforeEOF ==
    (rdRet.err = "EOF" /\ cl.calls = 0 /\ rxDeadline = DeadlineNew)
        => delivered = Stream(nProduced)

\* C3 (as claimed): a Read that is parked when SetReadDeadline is called
\* with an instant in the past on an open connection returns
\* deadline-exceeded by that call alone.
C3_ParkedReadFailsOnPastDeadline ==
    [][(rd.pc = "parked" /\ rd.len > 0 /\ ~ctxDone /\ SetReadDeadline("past"))
          => (rd'.pc = "idle" /\ rdRet'.err = "DEADLINE")]_vars

\* C4: on an open connection whose read deadline has elapsed, a Read with a
\* non-empty destination returns (0, deadline-exceeded) at once and leaves
\* the pending bytes and the chunk the pump offers where they are.
C4_ElapsedDeadlineFailsRead ==
    [][(~ctxDone /\ rxDeadline.fired /\ ReadStarts)
          => /\ rd'.pc = "idle"
             /\ rdRet' = Result(0, "DEADLINE", "idle")
             /\ UNCHANGED <<rxDataPending, delivered, pump>>]_vars

\* C4 witness: a Read has failed on the elapsed deadline while bytes were
\* pending and the pump was offering the next chunk.
C4_Witness ==
    /\ ~ctxDone
    /\ rxDeadline.fired
    /\ rdRet = Result(0, "DEADLINE", "idle")
    /\ Len(rxDataPending) > 0
    /\ pump.pc = "sending"

\* C6 (as claimed): the underlying stream's Close is called at most once.
C6_InnerClosedAtMostOnce == innerCloseCalls <= 1

\* C7 (as claimed): once Close has completed, a Read with a non-empty
\* destination and a Write with a non-empty source that start afterwards
\* return (0, end-of-stream), whatever the deadlines, the pending bytes and
\* the underlying stream do.
C7_EOFPermanentAfterClose ==
    [][/\ (ctxDone /\ ReadStarts)
            => (rd'.pc = "idle" /\ rdRet' = Result(0, "EOF", "idle"))
       /\ (wr.pc = "select" /\ wr.closedAtCall /\ wr.len > 0 /\ WriteSelect)
            => (wr'.pc = "idle" /\ wrRet' = Result(0, "EOF", "select"))]_vars

\* A Write call that went past its nil check returns in this step.
WriteReturns == wr.pc # "idle" /\ wr'.pc = "idle"

\* C5: the cancellation resumes a parked Read and a parked Write with
\* (0, end-of-stream), and nothing is parked once the connection is closed.
C5_CloseUnparks ==
    [][/\ (~ctxDone /\ ctxDone' /\ rd.pc = "parked")
            => (rd'.pc = "idle" /\ rdRet' = Result(0, "EOF", "parked"))
       /\ (~ctxDone /\ ctxDone' /\ wr.pc = "parked")
            => (wr'.pc = "idle" /\ wrRet' = Result(0, "EOF", "parked"))
       /\ ctxDone' => (rd'.pc # "parked" /\ wr'.pc # "parked")]_vars

\* C5 witness: the pump closed the connection on a read error, with no Close
\* by the caller, and the parked Read and the parked Write returned
\* end-of-stream.
C5_Witness ==
    /\ ctxDone
    /\ cl.calls = 0
    /\ rdRet = Result(0, "EOF", "parked")
    /\ wrRet = Result(0, "EOF", "parked")

\* A deadline setter runs in this step (SetDeadline: either half).
SetterStep ==
    \/ \E t \in Times : SetReadDeadline(t) \/ SetWriteDeadline(t) \/ SetDeadline(t)
    \/ SetDeadlineWrite

\* C8: on a closed connection every deadline setter returns net.ErrClosed
\* and leaves both deadlines as they were; SetDeadline returns at its read
\* half.
C8_SettersFailAfterClose ==
    [][(ctxDone /\ SetterStep)
          => /\ sdRet'.err = "ErrClosed"
             /\ sd'.pc = "idle"
             /\ UNCHANGED <<rxDeadline, txDeadline>>]_vars

\* C8 witness: SetDeadline has failed on the closed connection, whose two
\* deadlines still differ.
C8_Witness ==
    /\ ctxDone
    /\ sdRet = [op |-> "SetDeadline", err |-> "ErrClosed"]
    /\ rxDeadline.t = "past"
    /\ txDeadline.t = "future"

\* The data a Read step finds: pending bytes at the call, the chunk the
\* pump offers at the select, the chunk that arrives while parked.
ReadServed ==
    \/ ReadStarts /\ Len(rxDataPending) > 0
    \/ rd.pc = "select" /\ rd.len > 0 /\ pump.pc = "sending" /\ ReadSelect
    \/ rd.pc = "parked" /\ rd.len > 0 /\ nProduced' > nProduced

\* C9: on an open connection a deadline set to a future instant is not
\* elapsed; a Read or a Write fails with deadline-exceeded only when the
\* current deadline of its direction has elapsed; and while it has not, a
\* Read that finds data returns it, continuing the stream where the last
\* Read stopped, and a Write whose underlying write has returned returns
\* that result.
C9_Revival ==
    [][/\ (~ctxDone /\ SetReadDeadline("future")) => ~rxDeadline'.fired
       /\ (~ctxDone /\ SetWriteDeadline("future")) => ~txDeadline'.fired
       /\ (ReadReturns /\ rdRet'.err = "DEADLINE") => rxDeadline'.fired
       /\ (WriteReturns /\ wrRet'.err = "DEADLINE") => txDeadline'.fired
       /\ (~ctxDone /\ ~rxDeadline.fired /\ ReadServed)
            => /\ rd'.pc = "idle"
               /\ rdRet'.err = "nil"
               /\ rdRet'.n >= 1
               /\ delivered' = Stream(Len(delivered) + rdRet'.n)
       /\ (~ctxDone /\ ~txDeadline.fired /\ wr.pc = "select"
              /\ tasks[wr.calls].st = "sending" /\ WriteSelect)
            => wrRet' = Result(tasks[wr.calls].n, tasks[wr.calls].err, "select")
       /\ (wr.pc = "parked" /\ tasks[wr.calls].st = "writing"
              /\ tasks'[wr.calls].st # "writing")
            => (wr'.pc = "idle" /\ wrRet'.at = "parked" /\ wrRet'.err \in {"nil", "inner"})]_vars

\* C9 witness: a Read had timed out, the read deadline was set to a future
\* instant that has not come, and a Read that parked in its select was
\* served the next bytes.
C9_Witness ==
    /\ rdTimedOut
    /\ ~ctxDone
    /\ rxDeadline = [t |-> "future", fired |-> FALSE]
    /\ rdRet.at = "parked"
    /\ rdRet.err = "nil"
    /\ rdRet.n > 0
    /\ Len(delivered) > rdRet.n

\* C10: SetReadDeadline with the zero value on an open connection leaves a
\* read deadline that is neither elapsed nor running; such a deadline stays
\* as it is until the next SetReadDeadline, and while it lasts no Read
\* returns deadline-exceeded.
C10_ZeroDisablesReadDeadline ==
    [][/\ (~ctxDone /\ SetReadDeadline("zero"))
            => (~rxDeadline'.fired /\ ~DeadlineArmed(rxDeadline'))
       /\ (rxDeadline.t = "zero" /\ ~(\E t \in Times : SetReadDeadline(t)))
            => rxDeadline' = rxDeadline
       /\ (rxDeadline.t = "zero" /\ ReadReturns)
            => rdRet'.err # "DEADLINE"]_vars

\* C10 witness: after a Read had timed out the deadline was set to the zero
\* value, and a Read parked in its select was served the next chunk.
C10_Witness ==
    /\ rdTimedOut
    /\ ~ctxDone
    /\ rxDeadline.t = "zero"
    /\ rdRet.at = "parked"
    /\ rdRet.err = "nil"
    /\ rdRet.n > 0

\* C11 (as claimed): on an open connection, when the write deadline has
\* elapsed at Write's select, or elapses while Write is parked there, and the
\* underlying write of the call has not returned, Write returns
\* (0, deadline-exceeded) and the underlying write stays in flight.
C11_WriteFailsOnElapsedDeadline ==
    [][/\ (wr.pc = "select" /\ wr.len > 0 /\ ~ctxDone /\ txDeadline.fired
              /\ tasks[wr.calls].st = "writing" /\ WriteSelect)
            => /\ wr'.pc = "idle"
               /\ wrRet' = Result(0, "DEADLINE", "select")
               /\ tasks'[wr.calls].st = "writing"
       /\ (wr.pc = "parked" /\ wr.len > 0 /\ ~ctxDone /\ ~ctxDone'
              /\ tasks[wr.calls].st = "writing" /\ tasks'[wr.calls].st = "writing"
              /\ ~txDeadline.fired /\ txDeadline'.fired)
            => /\ wr'.pc = "idle"
               /\ wrRet' = Result(0, "DEADLINE", "parked")]_vars

\* A step of the reader pump that the pump can take by itself.
PumpStep ==
    \/ PumpLoop
    \/ \E n \in 0..MaxChunk, err \in BOOLEAN : InnerReadReturns(n, err)
    \/ PumpClose
    \/ PumpCancel
    \/ PumpCloseRxData

\* The underlying read has reported an error to the pump.
PumpSawError == pump.err \/ (pump.pc \in {"close", "cancel", "closeRxData", "done"} /\ cl.calls = 0)

\* C12 (as claimed): after the underlying read has reported an error, the
\* pump starts no underlying read, Read never returns that error, and when
\* the pump can take no further step, no call of the user being in
\* progress, the pump has closed the connection: the cancellation is set
\* and the underlying stream closed.
C12_PumpClosesAfterReadError ==
    /\ PumpSawError => innerReads = 0
    /\ rdRet.err \in {"none", "nil", "EOF", "DEADLINE"}
    /\ (PumpSawError /\ rd.pc = "idle" /\ ~ENABLED PumpStep)
          => (ctxDone /\ innerCloseCalls >= 1 /\ pump.pc = "done")

\* A Read or a Write with an empty, non-nil argument is called in this step.
EmptyRead == rd.pc = "idle" /\ Read([nil |-> FALSE, len |-> 0])

EmptyWrite == wr.pc = "idle" /\ Write([nil |-> FALSE, len |-> 0])

\* C13 (as claimed): a Read with a nil or empty destination returns (0, nil)
\* at once and leaves the pending bytes, the handoff queue and the pump as
\* they are; a Write with a nil or empty source returns (0, nil) at once and
\* starts no underlying write.
C13_EmptyIsNoOp ==
    [][/\ ((rd.pc = "idle" /\ Read([nil |-> TRUE, len |-> 0])) \/ EmptyRead)
            => /\ rd'.pc = "idle"
               /\ rdRet' = Result(0, "nil", "idle")
               /\ UNCHANGED <<rxDataPending, delivered, pumpVars>>
       /\ ((wr.pc = "idle" /\ Write([nil |-> TRUE, len |-> 0])) \/ EmptyWrite)
            => /\ wr'.pc = "idle"
               /\ wrRet' = Result(0, "nil", "idle")
               /\ UNCHANGED tasks]_vars

\* C14 (as claimed): a Read with a non-empty destination that starts while
\* bytes are pending returns min(len(b), len(pending)) bytes from the front
\* of the pending buffer with no error and takes no chunk from the pump, in
\* every state.
C14_PendingServedFirst ==
    [][(ReadStarts /\ Len(rxDataPending) > 0)
          => /\ rd'.pc = "idle"
             /\ rdRet'.err = "nil"
             /\ rdRet'.n >= 1
             /\ rdRet'.n <= Len(rxDataPending)
             /\ delivered' = delivered \o SliceTo(rxDataPending, rdRet'.n)
             /\ rxDataPending' = SliceFrom(rxDataPending, rdRet'.n)
             /\ UNCHANGED pumpVars]_vars

\* C15 (as claimed): after a Close by the caller, once the pump's underlying
\* read has returned and the pump can take no further step, no Read being
\* in progress, the pump has ended and c.rxData is closed.
C15_PumpEndsAfterClose ==
    (cl.calls >= 1 /\ cl.pc = "idle" /\ rd.pc = "idle" /\ ~ENABLED PumpStep)
        => (pump.pc = "done" /\ rxDataClosed)

\* C16 (as claimed): a goroutine of Write whose underlying write has returned
\* is not left blocked: it is sending only while its Write is there to
\* receive.
C16_WriteTaskEnds ==
    \A k \in 1..MaxWrites : tasks[k].st = "sending" => InCall(k)

\* C17: at most one c.inner.Read is in flight; a call of c.inner.Read starts
\* only in the pump's loop, on a connection the loop's select found open;
\* and a loop iteration that finds the cancellation set starts none.
C17_PumpOwnsInnerRead ==
    [][/\ innerReads' <= 1
       /\ innerReads' > innerReads
            => (pump.pc = "loop" /\ pump'.pc = "reading" /\ ~ctxDone /\ PumpLoop)
       /\ (ctxDone /\ PumpLoop) => (innerReads' = innerReads /\ pump'.pc = "close")]_vars

\* C17 witness: after bytes were produced the caller closed the connection,
\* and the pump's loop, finding the cancellation set, left for its deferred
\* calls with no underlying read in flight.
C17_Witness ==
    /\ ctxDone
    /\ cl.calls = 1
    /\ innerCloseCalls = 1
    /\ pump.pc = "close"
    /\ ~pump.err
    /\ innerReads = 0
    /\ nProduced > 0

\* C18 (as claimed): with one Write call at a time, at most one
\* c.inner.Write is in flight at any moment.
C18_OneInnerWriteInFlight ==
    Cardinality({k \in 1..MaxWrites : tasks[k].st = "writing"}) <= 1

\* C19: a Read that returns deadline-exceeded or end-of-stream leaves the
\* pending bytes and the chunk the pump is offering as they are, and every
\* Read that returns bytes continues the stream where the last one stopped.
C19_FailedReadLeavesData ==
    [][/\ (rdRet'.err \in {"DEADLINE", "EOF"} /\ ReadReturns)
            => /\ UNCHANGED <<rxDataPending, delivered, nProduced>>
               /\ pump'.chunk = pump.chunk
               /\ pump.pc = "sending" => pump'.pc = "sending"
       /\ (rdRet'.err = "nil" /\ ReadReturns)
            => delivered' = Stream(Len(delivered) + rdRet'.n)]_vars

\* C19 witness: a Read timed out in its second select while the pump was
\* offering a chunk, and the chunk is still on offer.
C19_Witness ==
    /\ rdRet = Result(0, "DEADLINE", "select")
    /\ pump.pc = "sending"
    /\ Len(pump.chunk) = MaxChunk
    /\ rxDataPending = <<>>

\* A Read with a non-empty destination returns in this step.
NonEmptyReadReturns ==
    /\ rd'.pc = "idle"
    /\ (rd.pc # "idle" /\ rd.len > 0) \/ ReadStarts

\* C20: every chunk the pump offers on c.rxData holds at least one byte, and
\* a Read with a non-empty destination that returns no error returns at
\* least one byte.
C20_NoEmptySuccess ==
    [][/\ pump'.pc = "sending" => Len(pump'.chunk) >= 1
       /\ (NonEmptyReadReturns /\ rdRet'.err = "nil") => rdRet'.n >= 1]_vars

\* C20 witness: after an underlying read of no bytes, which sent nothing, a
\* parked Read with a one-byte destination was served the first byte of the
\* next chunk.
C20_Witness ==
    /\ rdRet = Result(1, "nil", "parked")
    /\ delivered = <<1>>
    /\ rxDataPending = <<2>>
    /\ nProduced = 2

\* C21: c.rxData is closed only by the pump's deferred close, which runs
\* once, on a channel that is still open; Close by the caller does not
\* close it; and once it is closed it stays closed, the pump has ended and
\* sends nothing more.
C21_RxDataClosedOnce ==
    [][/\ PumpCloseRxData => ~rxDataClosed
       /\ (rxDataClosed' /\ ~rxDataClosed) => PumpCloseRxData
       /\ rxDataClosed => rxDataClosed'
       /\ rxDataClosed' => (pump'.pc = "done" /\ pump'.chunk = <<>>)
       /\ rxDataClosed => (pump' = pump /\ nProduced' = nProduced)]_vars

\* C21 witness: the pump closed the connection on a read error and the
\* caller called Close twice as well; c.rxData is closed, after bytes went
\* through it.
C21_Witness ==
    /\ rxDataClosed
    /\ pump.pc = "done"
    /\ cl = [pc |-> "idle", calls |-> 2]
    /\ innerCloseCalls = 3
    /\ Len(delivered) > 0

====
